---- MODULE Spec2Model ----
(***************************************************************************)
(* JsiDomNode (package/cpp/rnskia/dom/base/JsiDomNode.h): the node of the  *)
(* Skia reconciler tree.  A node owns an ordered vector of children, a     *)
(* lazily created properties container and an optional dispose callback.   *)
(*                                                                         *)
(* The program state is  created, children, disposeCallback,               *)
(* propsContainer;  values is what the containers hold, array an array a   *)
(* caller got from children(), frame the position of a dispose() in        *)
(* progress.  The remaining variables are observers: they record what the  *)
(* last handler did (calls, ret, op) or accumulate a history, and never    *)
(* influence the program state.  Each specification follows the variables  *)
(* its properties read and leaves the others alone.                        *)
(***************************************************************************)
EXTENDS Integers, Sequences, FiniteSets, TLC

\* Node handles.  Handles are allocated in the order of NodeOrder.
NodeOrder == <<"A", "B", "C", "D">>
Nodes == {NodeOrder[i] : i \in 1..Len(NodeOrder)}

\* The handles used by the specifications that let every node be a parent.
SmallOrder == <<"A", "B", "C">>

\* nullptr: an empty std::function, a null shared_ptr.
Null == "nullptr"

\* The callbacks a coordinator registers.
Callbacks == {"cb"}

\* Longest children vector of the single parent of SpecTree.
MaxChildren == 3

\* Largest number of child entries in the whole tree, where every node may
\* be a parent.
MaxEntries == 2

\* Most dispose() invocations recorded on the watched node per registration.
MaxDisposeCalls == 2

\* Most setProps calls recorded on the watched node.
MaxSetProps == 2

VARIABLES
  created,          \* the handles allocated so far
  children,         \* _children of every node
  disposeCallback,  \* _disposeCallback of every node (Null when empty)
  propsContainer,   \* _propsContainer of every node: NoContainer or an instance
  calls,            \* the last handler called and the calls it made
  ret,              \* what the last handler returned to its caller
  ref,              \* reference list model of the parent's children
  allValid,         \* every structural operation so far was valid
  watch,            \* the node whose history is recorded
  registered,       \* the last setDisposeCallback on watch gave a callback
  sinceSet,         \* per dispose() on watch since then: did the callback run
  everFired,        \* a dispose callback of watch has run
  addedDisposed,    \* watch was made a child after its callback had run
  setPropsCalls,    \* setProps calls on watch, the factory's included
  defineCalls,      \* defineProperties calls on watch
  applied,          \* batches handed to the container of watch
  appliedAtDefine,  \* the value of applied when defineProperties last ran
  values,           \* the materialized values the container of every node holds
  op,               \* the handler last called, when its receiver was watch
  prior,            \* container and values of watch before its last setProps
  lastBatch,        \* the batch of that setProps, while no other call followed
  array,            \* the jsi::Array the last children() call on watch returned
  frame             \* the dispose() invocation in progress and its line

prog == <<created, children, disposeCallback, propsContainer>>
treeObs == <<calls, ret, ref, allValid>>
dispObs == <<registered, sinceSet, everFired, addedDisposed>>
propObs == <<setPropsCalls, defineCalls, applied, appliedAtDefine>>
batchObs == <<values, op, prior, lastBatch>>
vars == <<prog, treeObs, watch, dispObs, propObs, batchObs, array, frame>>

----------------------------------------------------------------------------
(* The vector algorithms the handlers use.                                 *)

\* Number of entries of list equal to x.
Count(list, x) == Cardinality({i \in 1..Len(list) : list[i] = x})

InList(list, x) == \E i \in 1..Len(list) : list[i] = x

\* std::find: the position of the first entry equal to x, end() if none.
find(list, x) ==
  IF InList(list, x)
    THEN CHOOSE i \in 1..Len(list) :
           list[i] = x /\ \A j \in 1..(i - 1) : list[j] # x
    ELSE Len(list) + 1

\* std::vector::insert(position, x): x is placed before position.
insert(list, position, x) ==
  SubSeq(list, 1, position - 1) \o <<x>> \o SubSeq(list, position, Len(list))

\* std::remove_if + erase: every entry equal to child is dropped, the others
\* keep their order.
RECURSIVE remove_if(_, _)
remove_if(list, child) ==
  IF list = <<>> THEN <<>>
  ELSE IF Head(list) = child THEN remove_if(Tail(list), child)
  ELSE <<Head(list)>> \o remove_if(Tail(list), child)

----------------------------------------------------------------------------
(* The native methods, as functions of the fields they read.               *)

\* A call made by a handler: the function and its argument.
Call(fn, arg) == <<fn, arg>>

\* A null _propsContainer; the instances are numbered from 1.
NoContainer == 0

\* std::make_shared<NodePropsContainer>(): an instance that is not cur.
make_shared(cur) == cur + 1

\* addChild: _children.push_back(child).
addChild(list, child) == Append(list, child)

\* Faulty variant: without the marker in the vector nothing is inserted.
insertChildBefore_only_if_found(list, child, before) ==
  IF InList(list, before) THEN insert(list, find(list, before), child) ELSE list

\* Faulty variant: the child is placed behind the marker.
insertChildBefore_after(list, child, before) ==
  insert(list, IF InList(list, before) THEN find(list, before) + 1
               ELSE Len(list) + 1, child)

\* insertChildBefore: find the marker, insert in front of it.
insertChildBefore(list, child, before) ==
  insert(list, find(list, before), child)

\* Faulty variant: the callback is not cleared.
dispose_keeps_callback(node, cb) ==
  [calls |-> IF cb # Null THEN <<Call("_disposeCallback", node)>> ELSE <<>>,
   callback |-> cb]

\* dispose: run the callback if there is one, then clear it.
dispose(node, cb) ==
  [calls |-> IF cb # Null THEN <<Call("_disposeCallback", node)>> ELSE <<>>,
   callback |-> IF cb # Null THEN Null ELSE cb]

\* Faulty variant: only the first occurrence is erased.
removeChild_first_only(list, child, cb) ==
  [children |-> IF InList(list, child)
                  THEN SubSeq(list, 1, find(list, child) - 1)
                       \o SubSeq(list, find(list, child) + 1, Len(list))
                  ELSE list,
   calls |-> <<Call("erase", IF InList(list, child) THEN 1 ELSE 0),
               Call("dispose", child)>> \o dispose(child, cb).calls,
   callback |-> dispose(child, cb).callback]

\* Faulty variant: the child is disposed only when it was found.
removeChild_dispose_if_found(list, child, cb) ==
  IF InList(list, child)
    THEN [children |-> remove_if(list, child),
          calls |-> <<Call("erase", Count(list, child)),
                      Call("dispose", child)>> \o dispose(child, cb).calls,
          callback |-> dispose(child, cb).callback]
    ELSE [children |-> list, calls |-> <<Call("erase", 0)>>, callback |-> cb]

\* Faulty variant: the callback is run without dispose() clearing it.
removeChild_keeps_callback(list, child, cb) ==
  [children |-> remove_if(list, child),
   calls |-> <<Call("erase", Count(list, child)),
               Call("dispose", child)>> \o dispose(child, cb).calls,
   callback |-> cb]

\* removeChild: erase the child from the vector, then child->dispose().
\* The calls are the erase, with the number of entries it drops, and the
\* dispose with what it calls.
removeChild(list, child, cb) ==
  [children |-> remove_if(list, child),
   calls |-> <<Call("erase", Count(list, child)),
               Call("dispose", child)>> \o dispose(child, cb).calls,
   callback |-> dispose(child, cb).callback]

\* Faulty variant: defineProperties runs on every call.
setProps_always_defines(node, container) ==
  [container |-> IF container = NoContainer THEN make_shared(container) ELSE container,
   calls |-> <<Call("defineProperties", node),
               Call("_propsContainer->setProps", node)>>]

\* Faulty variant: every call makes a new container.
setProps_new_container(node, container) ==
  [container |-> make_shared(container),
   calls |-> IF container = NoContainer
               THEN <<Call("defineProperties", node),
                      Call("_propsContainer->setProps", node)>>
               ELSE <<Call("_propsContainer->setProps", node)>>]

\* Faulty variant: only the batch that creates the container reaches it.
setProps_drops_later_batches(node, container) ==
  [container |-> IF container = NoContainer THEN make_shared(container) ELSE container,
   calls |-> IF container = NoContainer
               THEN <<Call("defineProperties", node),
                      Call("_propsContainer->setProps", node)>>
               ELSE <<>>]

\* Faulty variant: the batch that creates the container does not reach it.
setProps_drops_first_batch(node, container) ==
  [container |-> IF container = NoContainer THEN make_shared(container) ELSE container,
   calls |-> IF container = NoContainer
               THEN <<Call("defineProperties", node)>>
               ELSE <<Call("_propsContainer->setProps", node)>>]

\* setProps: create the container and define the properties on the first
\* call, then hand the batch to the container.
setProps(node, container) ==
  [container |-> IF container = NoContainer THEN make_shared(container) ELSE container,
   calls |-> IF container = NoContainer
               THEN <<Call("defineProperties", node),
                      Call("_propsContainer->setProps", node)>>
               ELSE <<Call("_propsContainer->setProps", node)>>]

\* The property names of a node type and the values a batch may give each.
Keys == {"r", "cx"}

PropValues(k) == IF k = "r" THEN {10, 20} ELSE {5}

\* The property batches the reconciler sends: a value for some of the keys.
Batches ==
  {b \in UNION {[K -> UNION {PropValues(k) : k \in Keys}] : K \in SUBSET Keys} :
     \A k \in DOMAIN b : b[k] \in PropValues(k)}

\* The values of a container that has been handed no batch.
NoValues == <<>>

\* NodePropsContainer::setProps: the supplied keys take the batch's values,
\* the other keys keep theirs.
NodePropsContainer_setProps(held, batch) ==
  [k \in (DOMAIN held) \cup (DOMAIN batch) |->
     IF k \in DOMAIN batch THEN batch[k] ELSE held[k]]

\* The values of node's container after a handler that made the calls of
\* trace with batch as the argument; held: the values of the container the
\* handler used.
Materialize(held, trace, node, batch) ==
  IF Count(trace, Call("_propsContainer->setProps", node)) > 0
    THEN NodePropsContainer_setProps(held, batch)
    ELSE held

\* No children() call has returned yet.
NoArray == [returned |-> FALSE, view |-> FALSE, items |-> <<>>]

\* No dispose() invocation is in progress.
NoFrame == <<>>

\* Faulty variant: the caller is handed a view of the node's own vector.
children_array_live_view(list) ==
  [returned |-> TRUE, view |-> TRUE, items |-> <<>>]

\* children: a new jsi::Array of _children.size() slots, slot by slot the
\* host object of the child at that position.
children_array(list) ==
  [returned |-> TRUE, view |-> FALSE,
   items |-> [index \in 1..Len(list) |-> list[index]]]

----------------------------------------------------------------------------
(* The operations on the program state.  Every action is one call of a    *)
(* handler by the reconciler or the coordinator and runs to completion.   *)

\* What a handler returns: createCtor the host object of the new node, the
\* JSI functions of a node jsi::Value::undefined(), setDisposeCallback nothing.
Returns(fn, node) ==
  IF fn = "createCtor" THEN node
  ELSE IF fn = "setDisposeCallback" THEN "void"
  ELSE "undefined"

\* The handle the next allocation returns.
NextHandle == NodeOrder[Cardinality(created) + 1]

\* JsiDomNode(context, type): a node with no children, no container and no
\* dispose callback.
Constructor(n) ==
  /\ n \notin created
  /\ created' = created \cup {n}
  /\ children' = [children EXCEPT ![n] = <<>>]
  /\ disposeCallback' = [disposeCallback EXCEPT ![n] = Null]
  /\ propsContainer' = [propsContainer EXCEPT ![n] = NoContainer]

\* Faulty variant: the factory returns the node without initializing it.
CreateCtor_without_initialize(n) ==
  /\ n \notin created
  /\ created' = created \cup {n}
  /\ children' = [children EXCEPT ![n] = <<>>]
  /\ disposeCallback' = [disposeCallback EXCEPT ![n] = Null]
  /\ propsContainer' = [propsContainer EXCEPT ![n] = NoContainer]

\* JsiDomNodeCtor::createCtor: make_shared<TNode>, then initializeNode, which
\* is setProps with the constructor's arguments.
CreateCtor(n) ==
  /\ n \notin created
  /\ created' = created \cup {n}
  /\ children' = [children EXCEPT ![n] = <<>>]
  /\ disposeCallback' = [disposeCallback EXCEPT ![n] = Null]
  /\ propsContainer' = [propsContainer EXCEPT ![n] = setProps(n, NoContainer).container]

CreateCtorCalls(n) == <<Call("createCtor", n)>> \o setProps(n, NoContainer).calls

\* Faulty variant: applying properties starts the node over without children.
SetProps_resets_children(self) ==
  /\ self \in created
  /\ propsContainer' =
       [propsContainer EXCEPT ![self] = setProps(self, @).container]
  /\ children' = [children EXCEPT ![self] = <<>>]
  /\ UNCHANGED <<created, disposeCallback>>

\* JSI setProps.
SetProps(self) ==
  /\ self \in created
  /\ propsContainer' =
       [propsContainer EXCEPT ![self] = setProps(self, @).container]
  /\ UNCHANGED <<created, children, disposeCallback>>

SetPropsCalls(self) ==
  <<Call("setProps", self)>> \o setProps(self, propsContainer[self]).calls

\* JSI children: no field of any node is written.
Children(self) ==
  /\ self \in created
  /\ UNCHANGED <<created, children, disposeCallback, propsContainer>>

\* setDisposeCallback: the callback is overwritten.
SetDisposeCallback(self, cb) ==
  /\ self \in created
  /\ disposeCallback' = [disposeCallback EXCEPT ![self] = cb]
  /\ UNCHANGED <<created, children, propsContainer>>

\* JSI dispose.
Dispose(self) ==
  /\ self \in created
  /\ disposeCallback' =
       [disposeCallback EXCEPT ![self] = dispose(self, @).callback]
  /\ UNCHANGED <<created, children, propsContainer>>

DisposeCalls(self) ==
  <<Call("JSI dispose", self), Call("dispose", self)>>
    \o dispose(self, disposeCallback[self]).calls

\* Faulty variant: a child without a dispose callback is not added.
AddChild_unless_unregistered(self, child) ==
  /\ self \in created /\ child \in created
  /\ children' = [children EXCEPT
                    ![self] = IF disposeCallback[child] = Null THEN @
                              ELSE addChild(@, child)]
  /\ UNCHANGED <<created, disposeCallback, propsContainer>>

\* JSI addChild.
AddChild(self, child) ==
  /\ self \in created /\ child \in created
  /\ children' = [children EXCEPT ![self] = addChild(@, child)]
  /\ UNCHANGED <<created, disposeCallback, propsContainer>>

AddChildCalls(self, child) ==
  <<Call("addChild", child), Call("push_back", child)>>

\* JSI insertChildBefore.
InsertChildBefore(self, child, before) ==
  /\ self \in created /\ child \in created /\ before \in created
  /\ children' = [children EXCEPT ![self] = insertChildBefore(@, child, before)]
  /\ UNCHANGED <<created, disposeCallback, propsContainer>>

InsertChildBeforeCalls(self, child, before) ==
  <<Call("insertChildBefore", <<child, before>>),
    Call("insert", find(children[self], before))>>

\* JSI removeChild.
RemoveChild(self, child) ==
  /\ self \in created /\ child \in created
  /\ children' =
       [children EXCEPT
          ![self] = removeChild(@, child, disposeCallback[child]).children]
  /\ disposeCallback' =
       [disposeCallback EXCEPT
          ![child] = removeChild(children[self], child, @).callback]
  /\ UNCHANGED <<created, propsContainer>>

RemoveChildCalls(self, child) ==
  <<Call("removeChild", child)>>
    \o removeChild(children[self], child, disposeCallback[child]).calls

----------------------------------------------------------------------------
(* Initial state: no node has been allocated.                             *)

InitProg ==
  /\ created = {}
  /\ children = [n \in Nodes |-> <<>>]
  /\ disposeCallback = [n \in Nodes |-> Null]
  /\ propsContainer = [n \in Nodes |-> NoContainer]

InitObs ==
  /\ calls = <<>>
  /\ ret = "none"
  /\ ref = <<>>
  /\ allValid = TRUE
  /\ registered = FALSE
  /\ sinceSet = <<>>
  /\ everFired = FALSE
  /\ addedDisposed = FALSE
  /\ setPropsCalls = 0
  /\ defineCalls = 0
  /\ applied = 0
  /\ appliedAtDefine = 0
  /\ values = [n \in Nodes |-> NoValues]
  /\ op = "none"
  /\ prior = [container |-> NoContainer, values |-> NoValues]
  /\ lastBatch = <<>>
  /\ array = NoArray
  /\ frame = NoFrame

----------------------------------------------------------------------------
(* The reference list model of one parent's children: append at the end,  *)
(* insert immediately before the marker, delete the element.              *)

RefIndex(s, x) == IF InList(s, x) THEN CHOOSE i \in 1..Len(s) : s[i] = x ELSE 0

RefAppend(s, c) == [i \in 1..(Len(s) + 1) |-> IF i <= Len(s) THEN s[i] ELSE c]

RefInsertBefore(s, c, m) ==
  [i \in 1..(Len(s) + 1) |->
     IF i < RefIndex(s, m) THEN s[i]
     ELSE IF i = RefIndex(s, m) THEN c
     ELSE s[i - 1]]

RefDelete(s, c) ==
  IF InList(s, c)
    THEN [i \in 1..(Len(s) - 1) |-> IF i < RefIndex(s, c) THEN s[i] ELSE s[i + 1]]
    ELSE s

\* The reference model follows the valid operations; after an invalid one
\* it is abandoned.
TreeObs(valid, newRef) ==
  /\ allValid' = (allValid /\ valid)
  /\ ref' = IF allValid /\ valid THEN newRef ELSE <<>>

----------------------------------------------------------------------------
(* SpecTree: one parent, the first node allocated, and the structural     *)
(* operations the reconciler issues on it, with any node as the child.    *)

Parent == NodeOrder[1]

InitTree == InitProg /\ InitObs /\ watch = Parent

TreeCreateCtor ==
  /\ Cardinality(created) < Len(NodeOrder)
  /\ CreateCtor(NextHandle)
  /\ calls' = CreateCtorCalls(NextHandle)
  /\ ret' = Returns("createCtor", NextHandle)
  /\ UNCHANGED <<ref, allValid, watch, batchObs, array, frame, dispObs, propObs>>

TreeAddChild(child) ==
  /\ Len(children[Parent]) < MaxChildren
  /\ AddChild(Parent, child)
  /\ calls' = AddChildCalls(Parent, child)
  /\ ret' = Returns("addChild", Parent)
  /\ TreeObs(~InList(children[Parent], child), RefAppend(ref, child))
  /\ UNCHANGED <<watch, batchObs, array, frame, dispObs, propObs>>

TreeInsertChildBefore(child, before) ==
  /\ Len(children[Parent]) < MaxChildren
  /\ InsertChildBefore(Parent, child, before)
  /\ calls' = InsertChildBeforeCalls(Parent, child, before)
  /\ ret' = Returns("insertChildBefore", Parent)
  /\ TreeObs(~InList(children[Parent], child) /\ InList(children[Parent], before),
             RefInsertBefore(ref, child, before))
  /\ UNCHANGED <<watch, batchObs, array, frame, dispObs, propObs>>

TreeRemoveChild(child) ==
  /\ RemoveChild(Parent, child)
  /\ calls' = RemoveChildCalls(Parent, child)
  /\ ret' = Returns("removeChild", Parent)
  /\ TreeObs(InList(children[Parent], child), RefDelete(ref, child))
  /\ UNCHANGED <<watch, batchObs, array, frame, dispObs, propObs>>

TreeDispose(n) ==
  /\ Dispose(n)
  /\ calls' = DisposeCalls(n)
  /\ ret' = Returns("dispose", n)
  /\ UNCHANGED <<ref, allValid, watch, batchObs, array, frame, dispObs, propObs>>

TreeSetDisposeCallback(n, cb) ==
  /\ SetDisposeCallback(n, cb)
  /\ calls' = <<Call("setDisposeCallback", <<n, cb>>)>>
  /\ ret' = Returns("setDisposeCallback", n)
  /\ UNCHANGED <<ref, allValid, watch, batchObs, array, frame, dispObs, propObs>>

NextTree ==
  \/ TreeCreateCtor
  \/ \E child \in Nodes : TreeAddChild(child)
  \/ \E child, before \in Nodes : TreeInsertChildBefore(child, before)
  \/ \E child \in Nodes : TreeRemoveChild(child)
  \/ \E n \in Nodes : TreeDispose(n)
  \/ \E n \in Nodes, cb \in Callbacks \cup {Null} : TreeSetDisposeCallback(n, cb)

SpecTree == InitTree /\ [][NextTree]_vars

----------------------------------------------------------------------------------------------------------------------------------------------------------------------------------------------------------------------------------------------------------------
(* Spec: every node may be the receiver of every operation.  One node,    *)
(* watch, chosen initially, has its disposal history recorded from the    *)
(* calls the handlers make.                                               *)

SmallNodes == {SmallOrder[i] : i \in 1..Len(SmallOrder)}

\* Number of child entries in the whole tree.
Entries ==
  Cardinality(UNION {{<<n, i>> : i \in 1..Len(children[n])} : n \in Nodes})

\* The disposal history of watch after a handler that made the calls of
\* trace; added: the handler gave watch one more entry in a children list.
DispObs(trace, added) ==
  /\ Count(trace, Call("dispose", watch)) > 0 => Len(sinceSet) < MaxDisposeCalls
  /\ sinceSet' =
       IF Count(trace, Call("dispose", watch)) > 0
         THEN Append(sinceSet, Count(trace, Call("_disposeCallback", watch)))
         ELSE sinceSet
  /\ everFired' = (everFired \/ Count(trace, Call("_disposeCallback", watch)) > 0)
  /\ addedDisposed' = (addedDisposed \/ (added /\ everFired))
  /\ registered' = registered

Init == InitProg /\ InitObs /\ watch \in SmallNodes

GenCreateCtor ==
  /\ Cardinality(created) < Len(SmallOrder)
  /\ CreateCtor(NextHandle)
  /\ UNCHANGED <<treeObs, watch, batchObs, array, frame, dispObs, propObs>>

GenSetProps(self) ==
  /\ SetProps(self)
  /\ UNCHANGED <<treeObs, watch, batchObs, array, frame, dispObs, propObs>>

GenSetDisposeCallback(self, cb) ==
  /\ SetDisposeCallback(self, cb)
  /\ registered' = IF self = watch THEN cb # Null ELSE registered
  /\ sinceSet' = IF self = watch THEN <<>> ELSE sinceSet
  /\ UNCHANGED <<treeObs, watch, batchObs, array, frame, everFired, addedDisposed, propObs>>

GenDispose(self) ==
  /\ Dispose(self)
  /\ DispObs(DisposeCalls(self), FALSE)
  /\ UNCHANGED <<treeObs, watch, batchObs, array, frame, propObs>>

GenAddChild(self, child) ==
  /\ Entries < MaxEntries
  /\ AddChild(self, child)
  /\ DispObs(AddChildCalls(self, child),
             Count(children'[self], watch) > Count(children[self], watch))
  /\ UNCHANGED <<treeObs, watch, batchObs, array, frame, propObs>>

GenInsertChildBefore(self, child, before) ==
  /\ Entries < MaxEntries
  /\ InsertChildBefore(self, child, before)
  /\ DispObs(InsertChildBeforeCalls(self, child, before),
             Count(children'[self], watch) > Count(children[self], watch))
  /\ UNCHANGED <<treeObs, watch, batchObs, array, frame, propObs>>

GenRemoveChild(self, child) ==
  /\ RemoveChild(self, child)
  /\ DispObs(RemoveChildCalls(self, child), FALSE)
  /\ UNCHANGED <<treeObs, watch, batchObs, array, frame, propObs>>

Next ==
  \/ GenCreateCtor
  \/ \E self \in SmallNodes : GenSetProps(self)
  \/ \E self \in SmallNodes, cb \in Callbacks \cup {Null} :
       GenSetDisposeCallback(self, cb)
  \/ \E self \in SmallNodes : GenDispose(self)
  \/ \E self, child \in SmallNodes : GenAddChild(self, child)
  \/ \E self, child, before \in SmallNodes :
       GenInsertChildBefore(self, child, before)
  \/ \E self, child \in SmallNodes : GenRemoveChild(self, child)

Spec == Init /\ [][Next]_vars

----------------------------------------------------------------------------
(* SpecProps: as Spec, with nodes made by the factory or by the bare      *)
(* constructor, and the property history of watch recorded.               *)

\* The positions of trace that hold call c.
Positions(trace, c) == {i \in 1..Len(trace) : trace[i] = c}

\* The property history of watch after a handler that made the calls of
\* trace.
PropObs(trace) ==
  LET handler == Count(trace, Call("setProps", watch))
                   + Count(trace, Call("createCtor", watch))
      defs == Positions(trace, Call("defineProperties", watch))
      sets == Positions(trace, Call("_propsContainer->setProps", watch))
  IN /\ handler > 0 => setPropsCalls < MaxSetProps
     /\ setPropsCalls' = setPropsCalls + handler
     /\ defineCalls' = defineCalls + Cardinality(defs)
     /\ applied' = applied + Cardinality(sets)
     /\ appliedAtDefine' =
          IF defs = {} THEN appliedAtDefine
          ELSE applied + Cardinality({j \in sets : \A i \in defs : j < i})

PropsConstructor ==
  /\ Cardinality(created) < Len(SmallOrder)
  /\ Constructor(NextHandle)
  /\ UNCHANGED <<treeObs, watch, batchObs, array, frame, dispObs, propObs>>

PropsCreateCtor ==
  /\ Cardinality(created) < Len(SmallOrder)
  /\ CreateCtor(NextHandle)
  /\ PropObs(CreateCtorCalls(NextHandle))
  /\ UNCHANGED <<treeObs, watch, batchObs, array, frame, dispObs>>

PropsSetProps(self) ==
  /\ SetProps(self)
  /\ PropObs(SetPropsCalls(self))
  /\ UNCHANGED <<treeObs, watch, batchObs, array, frame, dispObs>>

PropsSetDisposeCallback(self, cb) ==
  /\ SetDisposeCallback(self, cb)
  /\ PropObs(<<Call("setDisposeCallback", <<self, cb>>)>>)
  /\ UNCHANGED <<treeObs, watch, batchObs, array, frame, dispObs>>

PropsDispose(self) ==
  /\ Dispose(self)
  /\ PropObs(DisposeCalls(self))
  /\ UNCHANGED <<treeObs, watch, batchObs, array, frame, dispObs>>

PropsAddChild(self, child) ==
  /\ Entries < MaxEntries
  /\ AddChild(self, child)
  /\ PropObs(AddChildCalls(self, child))
  /\ UNCHANGED <<treeObs, watch, batchObs, array, frame, dispObs>>

PropsInsertChildBefore(self, child, before) ==
  /\ Entries < MaxEntries
  /\ InsertChildBefore(self, child, before)
  /\ PropObs(InsertChildBeforeCalls(self, child, before))
  /\ UNCHANGED <<treeObs, watch, batchObs, array, frame, dispObs>>

PropsRemoveChild(self, child) ==
  /\ RemoveChild(self, child)
  /\ PropObs(RemoveChildCalls(self, child))
  /\ UNCHANGED <<treeObs, watch, batchObs, array, frame, dispObs>>

NextProps ==
  \/ PropsConstructor
  \/ PropsCreateCtor
  \/ \E self \in SmallNodes : PropsSetProps(self)
  \/ \E self \in SmallNodes, cb \in Callbacks \cup {Null} :
       PropsSetDisposeCallback(self, cb)
  \/ \E self \in SmallNodes : PropsDispose(self)
  \/ \E self, child \in SmallNodes : PropsAddChild(self, child)
  \/ \E self, child, before \in SmallNodes :
       PropsInsertChildBefore(self, child, before)
  \/ \E self, child \in SmallNodes : PropsRemoveChild(self, child)

SpecProps == Init /\ [][NextProps]_vars

----------------------------------------------------------------------------
(* SpecBatch: two nodes, made by the factory or by the bare constructor,  *)
(* receive property batches and structural operations.  The materialized  *)
(* values of every container are followed; of the calls on watch the      *)
(* handler's name is recorded, and of a setProps on watch the batch and    *)
(* what the node held before it, until the next call.                     *)

BatchOrder == <<"A", "B">>
BatchNodes == {BatchOrder[i] : i \in 1..Len(BatchOrder)}

\* Native setProps with its batch, as a function of the container and the
\* values it holds: the node's setProps, then the container's for every
\* call the node makes to it.  A container just made holds no values.
Apply(state, node, batch) ==
  [container |-> setProps(node, state.container).container,
   values |->
     Materialize(IF setProps(node, state.container).container = state.container
                   THEN state.values ELSE NoValues,
                 setProps(node, state.container).calls, node, batch)]

NoPrior == [container |-> NoContainer, values |-> NoValues]

\* What is recorded of a handler called on self that made the calls of
\* trace: batch is <<>> unless the handler took a property batch.
BatchObs(self, name, trace, batch) ==
  /\ op' = IF self = watch THEN name ELSE "none"
  /\ prior' = IF self = watch /\ batch # <<>>
                THEN [container |-> propsContainer[self], values |-> values[self]]
                ELSE NoPrior
  /\ lastBatch' = IF self = watch THEN batch ELSE <<>>
  /\ defineCalls' = defineCalls + Count(trace, Call("defineProperties", watch))
  /\ UNCHANGED <<setPropsCalls, applied, appliedAtDefine>>

BatchConstructor ==
  /\ Cardinality(created) < Len(BatchOrder)
  /\ Constructor(NextHandle)
  /\ values' = [values EXCEPT ![NextHandle] = NoValues]
  /\ BatchObs(NextHandle, "JsiDomNode", <<>>, <<>>)
  /\ UNCHANGED <<treeObs, watch, dispObs, array, frame>>

BatchCreateCtor(batch) ==
  /\ Cardinality(created) < Len(BatchOrder)
  /\ CreateCtor(NextHandle)
  /\ values' = [values EXCEPT ![NextHandle] =
                  Materialize(NoValues, CreateCtorCalls(NextHandle),
                              NextHandle, batch)]
  /\ BatchObs(NextHandle, "createCtor", CreateCtorCalls(NextHandle), <<batch>>)
  /\ UNCHANGED <<treeObs, watch, dispObs, array, frame>>

BatchSetProps(self, batch) ==
  /\ SetProps(self)
  /\ values' = [values EXCEPT ![self] =
                  Apply([container |-> propsContainer[self], values |-> @],
                        self, batch).values]
  /\ BatchObs(self, "setProps", SetPropsCalls(self), <<batch>>)
  /\ UNCHANGED <<treeObs, watch, dispObs, array, frame>>

BatchAddChild(self, child) ==
  /\ Entries < MaxEntries
  /\ AddChild(self, child)
  /\ BatchObs(self, "addChild", AddChildCalls(self, child), <<>>)
  /\ UNCHANGED <<treeObs, watch, dispObs, values, array, frame>>

BatchInsertChildBefore(self, child, marker) ==
  /\ Entries < MaxEntries
  /\ InsertChildBefore(self, child, marker)
  /\ BatchObs(self, "insertChildBefore",
              InsertChildBeforeCalls(self, child, marker), <<>>)
  /\ UNCHANGED <<treeObs, watch, dispObs, values, array, frame>>

BatchRemoveChild(self, child) ==
  /\ RemoveChild(self, child)
  /\ BatchObs(self, "removeChild", RemoveChildCalls(self, child), <<>>)
  /\ UNCHANGED <<treeObs, watch, dispObs, values, array, frame>>

InitBatch == InitProg /\ InitObs /\ watch \in BatchNodes

NextBatch ==
  \/ BatchConstructor
  \/ \E batch \in Batches : BatchCreateCtor(batch)
  \/ \E self \in BatchNodes, batch \in Batches : BatchSetProps(self, batch)
  \/ \E self, child \in BatchNodes : BatchAddChild(self, child)
  \/ \E self, child, marker \in BatchNodes :
       BatchInsertChildBefore(self, child, marker)
  \/ \E self, child \in BatchNodes : BatchRemoveChild(self, child)

SpecBatch == InitBatch /\ [][NextBatch]_vars

----------------------------------------------------------------------------
(* SpecSnapshot: three nodes and the structural operations on them, with  *)
(* children() called on watch at any time.  The array the last such call  *)
(* returned is kept, as its caller keeps it.                              *)

\* What the holder of the array reads from it in the current state.
Read(a) == IF a.view THEN children[watch] ELSE a.items

SnapObs(self, name) ==
  /\ op' = IF self = watch THEN name ELSE "none"
  /\ UNCHANGED <<values, prior, lastBatch>>

SnapCreateCtor ==
  /\ Cardinality(created) < Len(SmallOrder)
  /\ CreateCtor(NextHandle)
  /\ SnapObs(NextHandle, "createCtor")
  /\ UNCHANGED <<treeObs, watch, dispObs, propObs, array, frame>>

SnapChildren(self) ==
  /\ Children(self)
  /\ array' = IF self = watch THEN children_array(children[self]) ELSE array
  /\ SnapObs(self, "children")
  /\ UNCHANGED <<treeObs, watch, dispObs, propObs, frame>>

SnapAddChild(self, child) ==
  /\ Entries < MaxEntries
  /\ AddChild(self, child)
  /\ SnapObs(self, "addChild")
  /\ UNCHANGED <<treeObs, watch, dispObs, propObs, array, frame>>

SnapInsertChildBefore(self, child, marker) ==
  /\ Entries < MaxEntries
  /\ InsertChildBefore(self, child, marker)
  /\ SnapObs(self, "insertChildBefore")
  /\ UNCHANGED <<treeObs, watch, dispObs, propObs, array, frame>>

SnapRemoveChild(self, child) ==
  /\ RemoveChild(self, child)
  /\ SnapObs(self, "removeChild")
  /\ UNCHANGED <<treeObs, watch, dispObs, propObs, array, frame>>

InitSnapshot == InitProg /\ InitObs /\ watch \in SmallNodes

NextSnapshot ==
  \/ SnapCreateCtor
  \/ \E self \in SmallNodes : SnapChildren(self)
  \/ \E self, child \in SmallNodes : SnapAddChild(self, child)
  \/ \E self, child, marker \in SmallNodes :
       SnapInsertChildBefore(self, child, marker)
  \/ \E self, child \in SmallNodes : SnapRemoveChild(self, child)

SpecSnapshot == InitSnapshot /\ [][NextSnapshot]_vars

----------------------------------------------------------------------------
(* SpecSteps: dispose() line by line.  A frame is the dispose() invocation *)
(* in progress: the node and the line control is at, "234" the test of    *)
(* _disposeCallback, "235" inside the callback, with the callback that is *)
(* running.  The callback is foreign code that returns without calling    *)
(* into the nodes, so no handler starts while a frame is open.  Of the    *)
(* handlers that reach dispose(), calls holds the calls made so far.      *)

\* Faulty variant: on its way out dispose() goes on to the first child.
dispose_return_cascades(list) ==
  IF list = <<>> THEN NoFrame ELSE <<Head(list), "234">>

\* Line 238: dispose() returns to its caller; list is the node's _children,
\* which it does not visit.
dispose_return(list) == NoFrame

\* Faulty variant: the callback is moved out of the field before it is run.
dispose_test_moves_callback(node, cb, list) ==
  IF cb # Null
    THEN [frame |-> <<node, "235", cb>>, callback |-> Null]
    ELSE [frame |-> dispose_return(list), callback |-> cb]

\* Lines 234-235: with a callback set, control enters it, the field still
\* holding it; with none, dispose() returns.
dispose_test(node, cb, list) ==
  IF cb # Null
    THEN [frame |-> <<node, "235", cb>>, callback |-> cb]
    ELSE [frame |-> dispose_return(list), callback |-> cb]

\* Line 236, once the callback has returned: the field is cleared.
dispose_clear(cb) == Null

\* JSI dispose calls dispose().
StepDispose(self) ==
  /\ frame = NoFrame
  /\ self \in created
  /\ frame' = <<self, "234">>
  /\ calls' = <<Call("JSI dispose", self), Call("dispose", self)>>
  /\ UNCHANGED <<prog, ret, ref, allValid, watch, dispObs, propObs, batchObs, array>>

\* JSI removeChild: the erase of lines 220-222, then the call of line 225.
StepRemoveChild(self, child) ==
  /\ frame = NoFrame
  /\ self \in created /\ child \in created
  /\ children' = [children EXCEPT ![self] = remove_if(@, child)]
  /\ frame' = <<child, "234">>
  /\ calls' = <<Call("removeChild", child),
                Call("erase", Count(children[self], child)),
                Call("dispose", child)>>
  /\ UNCHANGED <<created, disposeCallback, propsContainer, ret, ref, allValid,
                 watch, dispObs, propObs, batchObs, array>>

\* dispose() at line 234.
StepTest ==
  /\ frame # NoFrame
  /\ frame[2] = "234"
  /\ frame' = dispose_test(frame[1], disposeCallback[frame[1]],
                           children[frame[1]]).frame
  /\ disposeCallback' =
       [disposeCallback EXCEPT
          ![frame[1]] = dispose_test(frame[1], @, children[frame[1]]).callback]
  /\ calls' = IF disposeCallback[frame[1]] # Null
                THEN Append(calls, Call("_disposeCallback", frame[1]))
                ELSE calls
  /\ UNCHANGED <<created, children, propsContainer, ret, ref, allValid,
                 watch, dispObs, propObs, batchObs, array>>

\* The callback returns and dispose() runs line 236.
StepCallbackReturns ==
  /\ frame # NoFrame
  /\ frame[2] = "235"
  /\ disposeCallback' = [disposeCallback EXCEPT ![frame[1]] = dispose_clear(@)]
  /\ frame' = dispose_return(children[frame[1]])
  /\ UNCHANGED <<created, children, propsContainer, treeObs,
                 watch, dispObs, propObs, batchObs, array>>

StepCreateCtor ==
  /\ frame = NoFrame
  /\ Cardinality(created) < Len(SmallOrder)
  /\ CreateCtor(NextHandle)
  /\ calls' = <<>>
  /\ UNCHANGED <<ret, ref, allValid, watch, dispObs, propObs, batchObs, array, frame>>

StepSetDisposeCallback(self, cb) ==
  /\ frame = NoFrame
  /\ SetDisposeCallback(self, cb)
  /\ calls' = <<>>
  /\ UNCHANGED <<ret, ref, allValid, watch, dispObs, propObs, batchObs, array, frame>>

StepAddChild(self, child) ==
  /\ frame = NoFrame
  /\ Entries < MaxEntries
  /\ AddChild(self, child)
  /\ calls' = <<>>
  /\ UNCHANGED <<ret, ref, allValid, watch, dispObs, propObs, batchObs, array, frame>>

InitSteps == InitProg /\ InitObs /\ watch = Parent

NextSteps ==
  \/ StepCreateCtor
  \/ \E self \in SmallNodes, cb \in Callbacks \cup {Null} :
       StepSetDisposeCallback(self, cb)
  \/ \E self, child \in SmallNodes : StepAddChild(self, child)
  \/ \E self \in SmallNodes : StepDispose(self)
  \/ \E self, child \in SmallNodes : StepRemoveChild(self, child)
  \/ StepTest
  \/ StepCallbackReturns

SpecSteps == InitSteps /\ [][NextSteps]_vars

----------------
(* Properties of the structural operations (SpecTree).  In SpecTree the   *)
(* first entry of calls is the handler the reconciler called, with its    *)
(* arguments; the entries after it are the calls the handler made.        *)

\* The step is a call of handler fn with argument arg.
Called(fn, arg) == Len(calls') >= 1 /\ calls'[1] = Call(fn, arg)

\* The entries of list other than x, in order.
Others(list, x) == LET Keep(y) == y # x IN SelectSeq(list, Keep)

\* What a handler returns when it surfaces a failure to its caller.
Failure == "exception"

\* C1: after any sequence of valid addChild / insertChildBefore /
\* removeChild operations on one parent, the parent's children are what the
\* reference list model gives; on A[B, C], insertChildBefore(A, D, C) gives
\* [B, D, C].
C1_ChildrenFollowListModel ==
  /\ [](allValid => children[Parent] = ref)
  /\ [][(children[Parent] = <<"B", "C">>
           /\ Called("insertChildBefore", <<"D", "C">>))
          => children'[Parent] = <<"B", "D", "C">>]_vars

\* C1 witness: insertChildBefore(A, D, C) has just given [B, D, C], every
\* operation so far having been valid.
C1_Witness ==
  /\ allValid
  /\ calls = <<Call("insertChildBefore", <<"D", "C">>), Call("insert", 2)>>
  /\ children[Parent] = <<"B", "D", "C">>
  /\ ref = <<"B", "D", "C">>

C7_MissingTargetFails ==
  [][/\ \A child \in Nodes :
          (Called("removeChild", child) /\ ~InList(children[Parent], child))
            => ret' = Failure
     /\ \A child, before \in Nodes :
          (Called("insertChildBefore", <<child, before>>)
             /\ ~InList(children[Parent], before))
            => ret' = Failure]_vars

\* C17: insertChildBefore(child, before) with before not among the children
\* returns normally and leaves the former children, in their order,
\* followed by child.
C17_MissingMarkerAppends ==
  [][\A child, before \in Nodes :
       (Called("insertChildBefore", <<child, before>>)
          /\ ~InList(children[Parent], before))
         => /\ children'[Parent] = children[Parent] \o <<child>>
            /\ ret' = "undefined"]_vars

\* C17 witness: an insertChildBefore whose marker is not a child has put
\* its child behind two others.
C17_Witness ==
  /\ ret = "undefined"
  /\ Len(children[Parent]) = 3
  /\ \E child, before \in Nodes :
       /\ child # before
       /\ ~InList(children[Parent], before)
       /\ children[Parent][3] = child
       /\ calls = <<Call("insertChildBefore", <<child, before>>), Call("insert", 3)>>

----------------------------------------------------------------------------
(* Properties of disposal (Spec).                                         *)

\* The number of dispose() invocations recorded in h that ran the callback.
Runs(h) == Cardinality({i \in 1..Len(h) : h[i] > 0})

\* The step is a dispose() invocation on watch.
DisposedWatch == Len(sinceSet') = Len(sinceSet) + 1

\* The number of entries of n in all children lists.
Occurrences(n) ==
  Cardinality(UNION {{<<p, i>> : i \in {j \in 1..Len(children[p]) :
                                          children[p][j] = n}} : p \in Nodes})

\* C2: with a callback registered and no setDisposeCallback in between, the
\* first dispose() runs the callback and every later dispose() runs nothing
\* and changes no field of any node.
C2_DisposeRunsCallbackOnce ==
  /\ []((registered /\ Len(sinceSet) >= 1) =>
          /\ sinceSet[1] = 1
          /\ \A i \in 2..Len(sinceSet) : sinceSet[i] = 0)
  /\ [][(registered /\ Len(sinceSet) >= 1 /\ DisposedWatch) =>
          /\ sinceSet' = Append(sinceSet, 0)
          /\ disposeCallback' = disposeCallback
          /\ propsContainer' = propsContainer
          /\ Dispose(watch) => children' = children]_vars

\* C2 witness: the callback was registered, the first dispose() ran it and
\* a second dispose() ran nothing.
C2_Witness == registered /\ sinceSet = <<1, 0>> /\ disposeCallback[watch] = Null

\* C3 as stated: over any sequence of operations a node's disposal callback
\* fires at most once in total.
C3_FiresAtMostOnceInTotal ==
  [][(everFired /\ DisposedWatch) => sinceSet'[Len(sinceSet')] = 0]_vars

\* C3 amended: a node's disposal callback fires at most once per
\* registration: among the dispose() invocations since the last
\* setDisposeCallback at most one ran a callback, and none did unless that
\* call registered one.
C3_FiresAtMostOncePerRegistration ==
  /\ Runs(sinceSet) <= 1
  /\ \A i \in 1..Len(sinceSet) : sinceSet[i] <= 1
  /\ ~registered => Runs(sinceSet) = 0

\* C3 witness: a registered callback has run, on a removeChild or a dispose,
\* and the next dispose() on the node ran nothing.
C3_Witness == registered /\ everFired /\ Len(sinceSet) = 2 /\ Runs(sinceSet) = 1

\* C6: every node has at most one entry in all the children lists together.
C6_AtMostOneParent == \A n \in Nodes : Occurrences(n) <= 1

\* C8 as stated: a node whose dispose callback has fired is never made a
\* child again.
C8_DisposedNodeNeverAdded == ~addedDisposed

\* C8 amended: addChild and insertChildBefore do not reject a node whose
\* dispose callback has fired: it gets its new entry like any other node.
C8_DisposedNodeIsAdded ==
  [][\A self \in SmallNodes :
       (everFired /\ (\/ AddChild(self, watch)
                      \/ \E before \in SmallNodes :
                           InsertChildBefore(self, watch, before)))
         => /\ Count(children'[self], watch) = Count(children[self], watch) + 1
            /\ addedDisposed']_vars

\* C8 witness: watch became a child after its callback had run.
C8_Witness ==
  addedDisposed /\ everFired /\ \E p \in SmallNodes : InList(children[p], watch)

----------------------------------------------------------------------------
(* Properties of the properties container (SpecProps).                    *)

\* C9: defineProperties is called exactly once per node, by the first
\* setProps call (the factory's included), before that call hands its batch
\* to the container, and by no other operation.
C9_DefinePropertiesOnce ==
  /\ defineCalls = IF setPropsCalls >= 1 THEN 1 ELSE 0
  /\ defineCalls >= 1 => appliedAtDefine = 0
  /\ applied = setPropsCalls

\* C9 witness: after two setProps calls and other operations on the node,
\* defineProperties has run once.
C9_Witness ==
  /\ setPropsCalls = 2
  /\ defineCalls = 1
  /\ children[watch] # <<>>

\* C10: the container is absent until the first setProps call, and once
\* created the node keeps that instance whatever operation follows.
C10_ContainerNeverReplaced ==
  /\ [](setPropsCalls = 0 <=> propsContainer[watch] = NoContainer)
  /\ [][\A n \in Nodes :
          propsContainer[n] # NoContainer => propsContainer'[n] = propsContainer[n]]_vars

\* C10 witness: a node made by the bare constructor got its container on a
\* later setProps and kept it over a second setProps, with a child added and
\* a callback registered.
C10_Witness ==
  /\ setPropsCalls = 2
  /\ propsContainer[watch] = 1
  /\ children[watch] # <<>>
  /\ disposeCallback[watch] # Null

----------------------------------------------------------------------------
(* Properties of property batches (SpecBatch).  op is the handler of the  *)
(* step when its receiver is watch; after a setProps or a factory call on *)
(* watch, lastBatch holds the batch and prior what the node held before.  *)

StructuralOps == {"addChild", "insertChildBefore", "removeChild"}

\* The keys two batches both supply.
Disjoint(a, b) == (DOMAIN a) \cap (DOMAIN b) = {}

\* C11: a setProps call leaves the children list of every node unchanged,
\* and addChild / insertChildBefore / removeChild leave the properties
\* container and the materialized values of every node unchanged.
C11_IndependentChannels ==
  [][/\ op' = "setProps" => children' = children
     /\ op' \in StructuralOps =>
          /\ propsContainer' = propsContainer
          /\ values' = values]_vars

\* C11 witness: a setProps on a node with a child and with values, another
\* node having a child too.
C11_Witness ==
  /\ op = "setProps"
  /\ children[watch] # <<>>
  /\ values[watch] # NoValues
  /\ \E n \in BatchNodes \ {watch} : children[n] # <<>>

\* The node is as initializeNode leaves it: the container made, the
\* properties defined once, the batch materialized, no children, no
\* dispose callback.
Initialized ==
  /\ watch \in created
  /\ propsContainer[watch] = make_shared(NoContainer)
  /\ defineCalls = 1
  /\ lastBatch # <<>>
  /\ values[watch] = lastBatch[1]
  /\ children[watch] = <<>>
  /\ disposeCallback[watch] = Null

\* C12: a node returned by the factory is initialized, exactly as a node
\* of the bare constructor is after a first setProps with the same batch.
C12_FactoryInitializes ==
  /\ [](op = "createCtor" => Initialized)
  /\ [][(op = "JsiDomNode" /\ op' = "setProps") => Initialized']_vars

\* C12 witness: the factory has returned a second node, made with {r: 10}.
C12_Witness ==
  /\ op = "createCtor"
  /\ watch = BatchOrder[2]
  /\ values[watch] = [r |-> 10]
  /\ propsContainer[watch] # NoContainer

\* C13: after setProps(batch) every key of the batch has the batch's value
\* and every other key is as before the call, held or not; a node created
\* with {r: 10} has {r: 20, cx: 5} after setProps({r: 20, cx: 5}).
C13_MergesSuppliedKeys ==
  [][/\ op' = "setProps" =>
          \A k \in Keys :
            IF k \in DOMAIN lastBatch'[1]
              THEN /\ k \in DOMAIN values'[watch]
                   /\ values'[watch][k] = lastBatch'[1][k]
              ELSE /\ (k \in DOMAIN values'[watch]) = (k \in DOMAIN values[watch])
                   /\ k \in DOMAIN values[watch] =>
                        values'[watch][k] = values[watch][k]
     /\ (/\ op = "createCtor" /\ lastBatch = <<[r |-> 10]>>
         /\ op' = "setProps" /\ lastBatch' = <<[r |-> 20, cx |-> 5]>>)
          => values'[watch] = [r |-> 20, cx |-> 5]]_vars

\* C13 witness: a node holding r and cx has just been given a new r alone.
C13_Witness ==
  /\ op = "setProps"
  /\ lastBatch = <<[r |-> 10]>>
  /\ prior.values = [r |-> 20, cx |-> 5]
  /\ values[watch] = [r |-> 10, cx |-> 5]

\* C14: when two consecutive setProps calls on a node supply disjoint keys,
\* the node holds what it would hold had the two batches come in the other
\* order, whatever it held before, and also when it had no container.
C14_DisjointBatchesCommute ==
  [][(/\ op' = "setProps" /\ lastBatch # <<>>
      /\ Disjoint(lastBatch[1], lastBatch'[1]))
       => /\ values'[watch] =
               Apply(Apply(prior, watch, lastBatch'[1]), watch, lastBatch[1]).values
          /\ propsContainer'[watch] =
               Apply(Apply(prior, watch, lastBatch'[1]), watch, lastBatch[1]).container]_vars

\* C14 witness: a node of the bare constructor was given {r: 20}, then
\* {cx: 5}.
C14_Witness ==
  /\ op = "setProps"
  /\ lastBatch = <<[cx |-> 5]>>
  /\ prior = [container |-> make_shared(NoContainer), values |-> [r |-> 20]]
  /\ values[watch] = [r |-> 20, cx |-> 5]

----------------------------------------------------------------------------
(* Properties of children() (SpecSnapshot).                               *)

\* C15: children() returns the children in their current order and changes
\* no list; what the holder of a returned array reads from it stays the
\* same over every later addChild / insertChildBefore / removeChild.
C15_ChildrenReturnsSnapshot ==
  [][/\ op' = "children" =>
          /\ array'.returned
          /\ Read(array)' = children[watch]
          /\ children' = children
     /\ (array.returned /\ op' \in StructuralOps) => Read(array)' = Read(array)]_vars

\* C15 witness: an array returned with two children is still held after the
\* node has lost a child and got another.
C15_Witness ==
  /\ array.returned
  /\ Len(Read(array)) = 2
  /\ op = "addChild"
  /\ Len(children[watch]) = 1
  /\ children[watch][1] # Read(array)[1]
  /\ children[watch][1] # Read(array)[2]

----------------------------------------------------------------------------
(* Properties of dispose() line by line (SpecSteps).                      *)

\* A callback is running: control is inside line 235.
InCallback == frame # NoFrame /\ frame[2] = "235"

\* The callbacks the calls of trace ran, as the nodes they belong to.
Fired(trace) ==
  {trace[i][2] : i \in {j \in 1..Len(trace) : trace[j][1] = "_disposeCallback"}}

\* C16: a dispose() in progress on a node changes no children list, writes
\* no other node's callback and starts no dispose() on another node; the
\* removeChild that called it took nothing but the removed node out of any
\* list; and the only callback a handler runs is that of the node it
\* disposes.
C16_DisposeIsNotRecursive ==
  /\ [][frame # NoFrame =>
          /\ children' = children
          /\ \A m \in Nodes \ {frame[1]} : disposeCallback'[m] = disposeCallback[m]
          /\ frame' # NoFrame => frame'[1] = frame[1]]_vars
  /\ [][(frame = NoFrame /\ frame' # NoFrame) =>
          /\ \A m \in Nodes :
               Others(children'[m], frame'[1]) = Others(children[m], frame'[1])
          /\ disposeCallback' = disposeCallback]_vars
  /\ [](\A n \in Nodes : Count(calls, Call("dispose", n)) > 0 => Fired(calls) \subseteq {n})

\* C16 witness: removeChild(A, B) has run B's callback and returned; B
\* still lists C, whose callback is registered.
C16_Witness ==
  /\ frame = NoFrame
  /\ calls = <<Call("removeChild", "B"), Call("erase", 1),
               Call("dispose", "B"), Call("_disposeCallback", "B")>>
  /\ children["A"] = <<>>
  /\ children["B"] = <<"C">>
  /\ disposeCallback["B"] = Null
  /\ disposeCallback["C"] # Null

\* C18: while the callback runs the node's field holds that callback, and
\* the step on which the callback returns leaves the field empty.
C18_ClearedAfterCallbackReturns ==
  /\ [](InCallback => /\ disposeCallback[frame[1]] # Null
                      /\ disposeCallback[frame[1]] = frame[3])
  /\ [][(InCallback /\ frame' # frame) =>
          /\ disposeCallback'[frame[1]] = Null
          /\ frame' = NoFrame]_vars
  /\ [][\A n \in Nodes :
          (disposeCallback[n] # Null /\ disposeCallback'[n] = Null /\ frame # NoFrame)
            => InCallback /\ frame[1] = n]_vars

\* C18 witness: the callback of a node being removed is running and the
\* node still holds it.
C18_Witness ==
  /\ InCallback
  /\ disposeCallback[frame[1]] = frame[3]
  /\ Len(calls) = 4
  /\ calls[1] = Call("removeChild", frame[1])

====
